---- MODULE Spec2Model ----
(***************************************************************************)
(* A model of the Responses-dialect translation layer:                     *)
(*   src/src/routes/responses/handler.ts      (streaming event sequencer)  *)
(*   src/src/routes/responses/translation.ts  (request normalizer and      *)
(*                                             response projector)         *)
(*                                                                         *)
(* JavaScript strings are TLA+ strings; "a" \o "b" is concatenation.  A    *)
(* property that is absent (undefined) is the marker Undefined, so that a  *)
(* template literal `fc_${id}` of an absent id reads "fc_undefined" as in  *)
(* the program.  JavaScript truthiness of a string is Truthy.              *)
(***************************************************************************)
EXTENDS Integers, Sequences, FiniteSets, TLC

Undefined == "undefined"

Truthy(s) == s # Undefined /\ s # ""

RECURSIVE Flatten(_)
Flatten(ss) == IF ss = <<>> THEN <<>> ELSE Head(ss) \o Flatten(Tail(ss))

RECURSIVE Join(_)
Join(strs) == IF strs = <<>> THEN "" ELSE Head(strs) \o Join(Tail(strs))

(***************************************************************************)
(* Bounds of the model.                                                    *)
(***************************************************************************)
MaxRecords == 3

MaxRecordsPair == 2

(***************************************************************************)
(* The upstream records (ChatCompletionChunk as read by handler.ts).       *)
(* A raw record either fails JSON.parse (json = FALSE) or decodes to a     *)
(* chunk.  hasChoices = FALSE is a decoded value without an iterable       *)
(* `choices`; hasDelta = FALSE is a choice without a `delta` object.  A    *)
(* fragment without a `function` block has name Undefined and arguments "".*)
(***************************************************************************)
Frag(index, id, name, arguments) ==
  [index |-> index, id |-> id, name |-> name, arguments |-> arguments]

Choice(content, tool_calls, finish_reason) ==
  [hasDelta |-> TRUE, content |-> content, tool_calls |-> tool_calls,
   finish_reason |-> finish_reason]

BadChoice ==
  [hasDelta |-> FALSE, content |-> "", tool_calls |-> <<>>, finish_reason |-> ""]

Chunk(id, choices) ==
  [json |-> TRUE, id |-> id, hasChoices |-> TRUE, choices |-> choices]

NoChoices(id) ==
  [json |-> TRUE, id |-> id, hasChoices |-> FALSE, choices |-> <<>>]

Undecodable ==
  [json |-> FALSE, id |-> Undefined, hasChoices |-> FALSE, choices |-> <<>>]

(***************************************************************************)
(* StreamState and the events handed to stream.writeSSE.  The created_at   *)
(* timestamps of the two response envelopes are left out: they are read    *)
(* from the clock at emission and no other part of the program reads them. *)
(***************************************************************************)
createStreamState(model, now) ==
  [outputText |-> "", responseId |-> "resp_" \o ToString(now),
   model |-> model, outputIndex |-> 0]

CreatedEvent(state) ==
  [type |-> "response.created",
   response |-> [id |-> state.responseId, object |-> "response",
                 model |-> state.model, output |-> <<>>,
                 status |-> "in_progress"]]

TextDeltaEvent(content, outputIndex) ==
  [type |-> "response.output_text.delta", delta |-> content,
   output_index |-> outputIndex, content_index |-> 0]

FunctionCallStartEvent(toolCall, outputIndex) ==
  [type |-> "response.function_call_arguments.start",
   item |-> [id |-> "fc_" \o toolCall.id, type |-> "function_call",
             name |-> toolCall.name, call_id |-> toolCall.id,
             status |-> "in_progress"],
   output_index |-> outputIndex]

FunctionCallDeltaEvent(args, outputIndex) ==
  [type |-> "response.function_call_arguments.delta", delta |-> args,
   output_index |-> outputIndex]

TextDoneEvent(outputIndex) ==
  [type |-> "response.output_text.done", output_index |-> outputIndex,
   content_index |-> 0]

DoneEvent(state) ==
  [type |-> "response.done",
   response |-> [id |-> state.responseId, object |-> "response",
                 model |-> state.model, output_text |-> state.outputText,
                 status |-> "completed"]]

(***************************************************************************)
(* processToolCalls: per fragment, a start event when the fragment carries *)
(* a function name, then a delta event when it carries arguments.          *)
(***************************************************************************)
\* mutant: the arguments of a fragment that also carries a name are dropped
toolCallEventsElseIf(toolCall, outputIndex) ==
  IF Truthy(toolCall.name)
    THEN <<FunctionCallStartEvent(toolCall, outputIndex)>>
  ELSE IF Truthy(toolCall.arguments)
    THEN <<FunctionCallDeltaEvent(toolCall.arguments, outputIndex)>>
  ELSE <<>>

toolCallEvents(toolCall, outputIndex) ==
  (IF Truthy(toolCall.name)
     THEN <<FunctionCallStartEvent(toolCall, outputIndex)>> ELSE <<>>)
  \o (IF Truthy(toolCall.arguments)
        THEN <<FunctionCallDeltaEvent(toolCall.arguments, outputIndex)>>
        ELSE <<>>)

processToolCalls(toolCalls, outputIndex) ==
  Flatten([i \in 1..Len(toolCalls) |->
             toolCallEvents(toolCalls[i], outputIndex)])

(***************************************************************************)
(* processChoice returns the state after the choice, the events written    *)
(* and whether it threw (reading delta.content of a missing delta).        *)
(***************************************************************************)
\* mutant: the delta replaces the accumulated text instead of extending it
appendTextOverwrite(state, content) ==
  IF Truthy(content) THEN [state EXCEPT !.outputText = content] ELSE state

appendText(state, content) ==
  IF Truthy(content)
    THEN [state EXCEPT !.outputText = @ \o content] ELSE state

\* mutant: text-done on every finish_reason, text or no text
textDoneDueFinishOnly(choice, state) == Truthy(choice.finish_reason)

textDoneDue(choice, state) ==
  Truthy(choice.finish_reason) /\ Truthy(state.outputText)

\* mutant: the text-delta event carries the accumulated text
processChoiceSnapshot(choice, state) ==
  IF ~choice.hasDelta THEN [st |-> state, ev |-> <<>>, threw |-> TRUE]
  ELSE LET s1 == appendText(state, choice.content)
           e1 == IF Truthy(choice.content)
                   THEN <<TextDeltaEvent(s1.outputText, s1.outputIndex)>>
                   ELSE <<>>
           e2 == processToolCalls(choice.tool_calls, s1.outputIndex)
           e3 == IF textDoneDue(choice, s1)
                   THEN <<TextDoneEvent(s1.outputIndex)>> ELSE <<>>
       IN [st |-> s1, ev |-> e1 \o e2 \o e3, threw |-> FALSE]

processChoice(choice, state) ==
  IF ~choice.hasDelta THEN [st |-> state, ev |-> <<>>, threw |-> TRUE]
  ELSE LET s1 == appendText(state, choice.content)
           e1 == IF Truthy(choice.content)
                   THEN <<TextDeltaEvent(choice.content, s1.outputIndex)>>
                   ELSE <<>>
           e2 == processToolCalls(choice.tool_calls, s1.outputIndex)
           e3 == IF textDoneDue(choice, s1)
                   THEN <<TextDoneEvent(s1.outputIndex)>> ELSE <<>>
       IN [st |-> s1, ev |-> e1 \o e2 \o e3, threw |-> FALSE]

RECURSIVE processChoices(_, _)
processChoices(choices, state) ==
  IF choices = <<>> THEN [st |-> state, ev |-> <<>>]
  ELSE LET r == processChoice(Head(choices), state)
       IN IF r.threw THEN [st |-> r.st, ev |-> r.ev]
          ELSE LET rest == processChoices(Tail(choices), r.st)
               IN [st |-> rest.st, ev |-> r.ev \o rest.ev]

(***************************************************************************)
(* processStreamChunk: JSON.parse, adopt a truthy chunk id, then the       *)
(* choices in order; whatever throws inside the try block ends the record, *)
(* keeping the state changes and the events made before the throw.         *)
(***************************************************************************)
\* mutant: the chunk id is adopted without testing it
adoptIdAlways(state, id) == [state EXCEPT !.responseId = id]

adoptId(state, id) ==
  IF Truthy(id) THEN [state EXCEPT !.responseId = id] ELSE state

processStreamChunk(rawEvent, state) ==
  IF ~rawEvent.json THEN [st |-> state, ev |-> <<>>]
  ELSE LET s0 == adoptId(state, rawEvent.id)
       IN IF ~rawEvent.hasChoices THEN [st |-> s0, ev |-> <<>>]
          ELSE processChoices(rawEvent.choices, s0)

(***************************************************************************)
(* A write that raises.  Every `await stream.writeSSE` of a record runs    *)
(* inside the try block of processStreamChunk.  writesOf lists the writes  *)
(* of the choices in order, each with the state at the time of the write:  *)
(* the only assignment of processChoice (line 130) precedes its first      *)
(* write.  When the k-th write raises, the catch at line 116 ends the      *)
(* record: the state is the one of that write and no later write is made.  *)
(***************************************************************************)
RECURSIVE writesOf(_, _)
writesOf(choices, state) ==
  IF choices = <<>> THEN <<>>
  ELSE LET r == processChoice(Head(choices), state)
       IN [i \in 1..Len(r.ev) |-> [ev |-> r.ev[i], st |-> r.st]]
            \o (IF r.threw THEN <<>> ELSE writesOf(Tail(choices), r.st))

recordWrites(rawEvent, state) ==
  IF rawEvent.json /\ rawEvent.hasChoices
    THEN writesOf(rawEvent.choices, adoptId(state, rawEvent.id))
  ELSE <<>>

\* mutant: the state of the record is rolled back when a write raises
processStreamChunkRaisingRollback(rawEvent, state, k) ==
  LET ws == recordWrites(rawEvent, state)
  IN [st |-> state, ev |-> [i \in 1..k |-> ws[i].ev]]

\* the events handed to the transport, the last of which raised
processStreamChunkRaising(rawEvent, state, k) ==
  LET ws == recordWrites(rawEvent, state)
  IN [st |-> ws[k].st, ev |-> [i \in 1..k |-> ws[i].ev]]

(***************************************************************************)
(* translation.ts, request side.  Values of a union type are tagged by     *)
(* kind: NoValue is undefined, Str(s) a string, Arr(xs) an array, Null the *)
(* null that translateContent returns; an object is written as its JSON    *)
(* text, a number as Num(n).                                               *)
(***************************************************************************)
NoValue == [kind |-> "undefined"]

Null == [kind |-> "null"]

Str(s) == [kind |-> "string", text |-> s]

Arr(xs) == [kind |-> "array", items |-> xs]

Num(n) == [kind |-> "number", value |-> n]

Bool(b) == [kind |-> "boolean", value |-> b]

RECURSIVE JoinWith(_, _)
JoinWith(strs, sep) ==
  IF strs = <<>> THEN ""
  ELSE IF Len(strs) = 1 THEN strs[1]
  ELSE strs[1] \o sep \o JoinWith(Tail(strs), sep)

\* mutant: only input_text parts are taken for text
isTextPartInputOnly(part) ==
  part.type = "input_text" /\ Truthy(part.text)

isTextPart(part) ==
  part.type \in {"input_text", "output_text"} /\ Truthy(part.text)

translateContent(content) ==
  IF content.kind = "undefined" THEN Null
  ELSE IF content.kind = "string"
    THEN (IF content.text = "" THEN Null ELSE Str(content.text))
  ELSE LET kept == SelectSeq(content.items, isTextPart)
           textParts == [i \in 1..Len(kept) |-> kept[i].text]
       IN IF Len(textParts) > 0 THEN Str(JoinWith(textParts, "\n")) ELSE Null

mapRole(role) == IF role = "developer" THEN "system" ELSE role

toolResultContent(item) ==
  IF item.output # Undefined THEN item.output
  ELSE IF item.content.kind = "string" THEN item.content.text ELSE ""

\* mutant: the declared role is copied, developer included
translateInputItemKeepRole(item) ==
  IF item.type = "tool_result" /\ Truthy(item.tool_call_id)
    THEN [role |-> "tool", tool_call_id |-> item.tool_call_id,
          content |-> toolResultContent(item)]
  ELSE LET content == translateContent(item.content)
       IN IF content = Null THEN Null
          ELSE [role |-> item.role, content |-> content.text]

\* a Message, or Null
translateInputItem(item) ==
  IF item.type = "tool_result" /\ Truthy(item.tool_call_id)
    THEN [role |-> "tool", tool_call_id |-> item.tool_call_id,
          content |-> toolResultContent(item)]
  ELSE LET content == translateContent(item.content)
       IN IF content = Null THEN Null
          ELSE [role |-> mapRole(item.role), content |-> content.text]

translateTool(tool) ==
  [type |-> "function",
   function |-> [name |-> tool.function.name,
                 description |-> tool.function.description,
                 parameters |-> IF tool.function.parameters = Undefined
                                  THEN "{}" ELSE tool.function.parameters]]

isFunctionTool(tool) == tool.type = "function" /\ tool.hasFunction

\* mutant: an empty result is returned as an empty array
translateToolsKeepEmpty(tools) ==
  IF tools.kind = "undefined" THEN NoValue
  ELSE LET kept == SelectSeq(tools.items, isFunctionTool)
       IN Arr([i \in 1..Len(kept) |-> translateTool(kept[i])])

translateTools(tools) ==
  IF tools.kind = "undefined" \/ Len(tools.items) = 0 THEN NoValue
  ELSE LET kept == SelectSeq(tools.items, isFunctionTool)
           result == [i \in 1..Len(kept) |-> translateTool(kept[i])]
       IN IF Len(result) > 0 THEN Arr(result) ELSE NoValue

translateToolChoice(tool_choice) ==
  IF tool_choice.kind = "string"
    THEN (IF tool_choice.text = "" THEN NoValue ELSE tool_choice)
  ELSE IF tool_choice.kind = "object"
            /\ tool_choice.type = "function"
            /\ tool_choice.hasFunction
            /\ Truthy(tool_choice.name)
    THEN [kind |-> "object", type |-> "function", hasFunction |-> TRUE,
          name |-> tool_choice.name]
  ELSE NoValue

instructionMessages(request) ==
  IF Truthy(request.instructions)
    THEN <<[role |-> "system", content |-> request.instructions]>> ELSE <<>>

\* mutant: an empty input string is taken for no input
inputMessagesTruthy(request) ==
  IF request.input.kind = "string"
    THEN (IF request.input.text = "" THEN <<>>
          ELSE <<[role |-> "user", content |-> request.input.text]>>)
  ELSE <<>>

inputMessages(request) ==
  IF request.input.kind = "string"
    THEN <<[role |-> "user", content |-> request.input.text]>>
  ELSE IF request.input.kind = "array"
    THEN LET translated == [i \in 1..Len(request.input.items) |->
                              translateInputItem(request.input.items[i])]
             isMessage(m) == m # Null
         IN SelectSeq(translated, isMessage)
  ELSE <<>>

\* mutant: the instructions are pushed after the input
translateMessagesInputFirst(request) ==
  inputMessages(request) \o instructionMessages(request)

translateMessages(request) ==
  instructionMessages(request) \o inputMessages(request)

translateResponsesToChat(request) ==
  [model |-> request.model,
   messages |-> translateMessages(request),
   max_tokens |-> request.max_output_tokens,
   temperature |-> request.temperature,
   top_p |-> request.top_p,
   stream |-> request.stream,
   tools |-> translateTools(request.tools),
   tool_choice |-> translateToolChoice(request.tool_choice)]

(***************************************************************************)
(* translation.ts, response side.  A chat completion response has an id, a *)
(* created time, a model, choices and an optional usage.  The content of a *)
(* message is Null, Str(s) or Arr(parts); its tool_calls are NoValue or    *)
(* Arr(calls).  A content part without a `text` property has text          *)
(* Undefined.                                                              *)
(***************************************************************************)
ToolCall(id, name, arguments) ==
  [id |-> id, function |-> [name |-> name, arguments |-> arguments]]

ResponseChoice(content, tool_calls) ==
  [message |-> [role |-> "assistant", content |-> content,
                tool_calls |-> tool_calls]]

Usage(prompt_tokens, completion_tokens, total_tokens) ==
  [kind |-> "object", prompt_tokens |-> prompt_tokens,
   completion_tokens |-> completion_tokens, total_tokens |-> total_tokens]

ChatResponse(id, created, model, choices, usage) ==
  [id |-> id, created |-> created, model |-> model, choices |-> choices,
   usage |-> usage]

isTextContentPart(p) == p.type = "text" /\ p.text # Undefined

extractTextContent(content) ==
  IF content.kind = "string" THEN content.text
  ELSE IF content.kind # "array" THEN ""
  ELSE LET kept == SelectSeq(content.items, isTextContentPart)
       IN Join([i \in 1..Len(kept) |-> kept[i].text])

\* if (message.content): null and the empty string are falsy, an array is not
contentTruthy(content) ==
  \/ content.kind = "array"
  \/ content.kind = "string" /\ content.text # ""

MessageItem(response, textContent) ==
  [id |-> "msg_" \o response.id, type |-> "message", role |-> "assistant",
   status |-> "completed",
   content |-> <<[type |-> "output_text", text |-> textContent]>>]

FunctionCallItem(toolCall) ==
  [id |-> "fc_" \o toolCall.id, type |-> "function_call",
   status |-> "completed", name |-> toolCall.function.name,
   arguments |-> toolCall.function.arguments, call_id |-> toolCall.id]

\* mutant: a message item is pushed whenever the content is truthy
messageItemsAnyContent(response, message) ==
  IF contentTruthy(message.content)
    THEN <<MessageItem(response, extractTextContent(message.content))>>
  ELSE <<>>

messageItems(response, message) ==
  IF contentTruthy(message.content)
       /\ extractTextContent(message.content) # ""
    THEN <<MessageItem(response, extractTextContent(message.content))>>
  ELSE <<>>

toolCallItems(message) ==
  IF message.tool_calls.kind = "array"
    THEN [i \in 1..Len(message.tool_calls.items) |->
            FunctionCallItem(message.tool_calls.items[i])]
  ELSE <<>>

\* mutant: the text of the first choice that has one is kept
RECURSIVE projectChoicesFirstWins(_, _, _)
projectChoicesFirstWins(response, choices, acc) ==
  IF choices = <<>> THEN acc
  ELSE LET message == Head(choices).message
           pushed == messageItems(response, message)
       IN projectChoicesFirstWins(response, Tail(choices),
            [output |-> acc.output \o pushed \o toolCallItems(message),
             outputText |-> IF pushed # <<>> /\ acc.outputText = ""
                              THEN extractTextContent(message.content)
                              ELSE acc.outputText])

\* one pass of the loop over response.choices: [output, outputText]
RECURSIVE projectChoices(_, _, _)
projectChoices(response, choices, acc) ==
  IF choices = <<>> THEN acc
  ELSE LET message == Head(choices).message
           pushed == messageItems(response, message)
       IN projectChoices(response, Tail(choices),
            [output |-> acc.output \o pushed \o toolCallItems(message),
             outputText |-> IF pushed # <<>>
                              THEN extractTextContent(message.content)
                              ELSE acc.outputText])

\* mutant: the total reported by the upstream is copied
translateUsageTrustTotal(usage) ==
  IF usage.kind = "undefined" THEN NoValue
  ELSE [kind |-> "object", input_tokens |-> usage.prompt_tokens,
        output_tokens |-> usage.completion_tokens,
        total_tokens |-> usage.total_tokens]

translateUsage(usage) ==
  IF usage.kind = "undefined" THEN NoValue
  ELSE [kind |-> "object", input_tokens |-> usage.prompt_tokens,
        output_tokens |-> usage.completion_tokens,
        total_tokens |-> usage.prompt_tokens + usage.completion_tokens]

\* mutant: the fallback model is never used
projectedModelNoFallback(response, model) == response.model

\* response.model || model
projectedModel(response, model) ==
  IF Truthy(response.model) THEN response.model ELSE model

translateChatToResponses(response, model) ==
  LET r == projectChoices(response, response.choices,
                          [output |-> <<>>, outputText |-> ""])
  IN [id |-> response.id, object |-> "response",
      created_at |-> response.created,
      model |-> projectedModel(response, model),
      output |-> r.output, output_text |-> r.outputText,
      usage |-> translateUsage(response.usage), status |-> "completed"]

(***************************************************************************)
(* The upstream alphabet.  Records: every record the environment may       *)
(* deliver in a single exchange.  RecordsPair: the smaller alphabet used   *)
(* when two exchanges run side by side.                                    *)
(***************************************************************************)
Models == {"gpt-4o", "gpt-4.1"}

Times == {1}

TextRecords ==
  {Chunk(Undefined, <<Choice("", <<>>, "")>>),
   Chunk(Undefined, <<Choice("", <<>>, "stop")>>),
   Chunk(Undefined, <<Choice("Hello", <<>>, "")>>),
   Chunk(Undefined, <<Choice(" world", <<>>, "stop")>>)}

IdRecords ==
  {Chunk(id, <<Choice("Hello", <<>>, "")>>) : id \in {"", "chatcmpl-1", "chatcmpl-2"}}

ToolRecords ==
  {Chunk(Undefined, <<Choice("", <<tc>>, "")>>) :
     tc \in {Frag(0, "c1", "get_weather", ""),
             Frag(0, Undefined, Undefined, "{\"loc\":"),
             Frag(0, Undefined, Undefined, "\"NYC\"}"),
             Frag(0, Undefined, "get_weather", "{\"loc\":"),
             Frag(0, "c1", Undefined, "{\"loc\":")}}

MultiRecords ==
  {Chunk(Undefined, <<Choice("Hello", <<>>, "stop"), Choice(" world", <<>>, "stop")>>),
   Chunk(Undefined, <<Choice("Hello", <<>>, ""), BadChoice>>),
   Chunk(Undefined, <<Choice("", <<Frag(0, "c1", "get_weather", ""),
                                   Frag(1, "c2", "get_time", "{}")>>, "tool_calls")>>)}

MalformedRecords == {Undecodable, NoChoices("chatcmpl-2")}

Records ==
  TextRecords \cup IdRecords \cup ToolRecords \cup MultiRecords \cup MalformedRecords

RecordsPair ==
  {Chunk("chatcmpl-1", <<Choice("Hello", <<>>, "")>>),
   Chunk("chatcmpl-2", <<Choice(" world", <<>>, "stop")>>),
   Chunk(Undefined, <<Choice("", <<Frag(0, "c1", "get_weather", "{}")>>, "")>>),
   Undecodable}

(***************************************************************************)
(* The state machine of streamSSE's callback in handleResponses, one copy  *)
(* per exchange.                                                           *)
(*   pc          where the callback stands: "off" (no such exchange),      *)
(*               "start" (state created, nothing written), "consume" (in   *)
(*               the for-await loop), "ended" (upstream has signalled its  *)
(*               end, the loop has not yet resumed), "done" (returned),    *)
(*               "failed" (the upstream iterator threw out of the loop)    *)
(*   streamState the StreamState object of each callback invocation        *)
(*   events      the events handed to stream.writeSSE, in order            *)
(*   history     the raw records consumed so far, in order                 *)
(*   cancelled   the client has disconnected                               *)
(*   born        request.model and the clock reading each callback started *)
(*               with (never changes)                                      *)
(***************************************************************************)
VARIABLES pc, streamState, events, history, cancelled, born

streamVars == <<pc, streamState, events, history, cancelled, born>>

(***************************************************************************)
(* The non-streaming part of handleResponses, one request at a time.       *)
(*   hpc         "idle" (no request in this part), "received" (the request *)
(*               body has been read), "translated" (line 36 has run),      *)
(*               "answered" (createChatCompletions has returned a complete *)
(*               response), "projected" (line 46 has run)                  *)
(*   request     the ResponsesApiRequest read from the body                *)
(*   chatPayload the result of translateResponsesToChat(request)           *)
(*   chatResponse       the ChatCompletionResponse of the upstream         *)
(*   responsesResponse  the result of translateChatToResponses             *)
(* raised[e] lists the positions in events[e] of the writes that raised    *)
(* an exception inside processStreamChunk.                                 *)
(***************************************************************************)
VARIABLES hpc, request, chatPayload, chatResponse, responsesResponse, raised

handlerVars ==
  <<hpc, request, chatPayload, chatResponse, responsesResponse, raised>>

vars == <<streamVars, handlerVars>>

Exchanges == {1, 2}

\* mutant: one StreamState object shared by all exchanges
StateShared(e) == 1

\* The StreamState an exchange's steps read and write: line 52 creates a
\* fresh object inside every invocation of the callback.
StateOf(e) == e

InitExchanges(active, models) ==
  /\ pc = [e \in Exchanges |-> IF e \in active THEN "start" ELSE "off"]
  /\ born \in [Exchanges -> [model : models, now : Times]]
  /\ \A e \in Exchanges \ active : born[e] = born[1]
  /\ streamState =
       [e \in Exchanges |-> createStreamState(born[e].model, born[e].now)]
  /\ events = [e \in Exchanges |-> <<>>]
  /\ history = [e \in Exchanges |-> <<>>]
  /\ cancelled = [e \in Exchanges |-> FALSE]
  /\ hpc = "idle"
  /\ request = NoValue
  /\ chatPayload = NoValue
  /\ chatResponse = NoValue
  /\ responsesResponse = NoValue
  /\ raised = [e \in Exchanges |-> <<>>]

Init == InitExchanges({1}, {"gpt-4o"})

InitPair == InitExchanges({1, 2}, Models)

\* await sendCreatedEvent(stream, streamState)
SendCreated(e) ==
  /\ pc[e] = "start"
  /\ events' = [events EXCEPT ![e] = Append(@, CreatedEvent(streamState[StateOf(e)]))]
  /\ pc' = [pc EXCEPT ![e] = "consume"]
  /\ UNCHANGED <<streamState, history, cancelled, born>>
  /\ UNCHANGED handlerVars

\* one turn of the for-await loop: await processStreamChunk(rawEvent, ...)
ProcessRecord(e, rawEvent, max) ==
  /\ pc[e] = "consume"
  /\ Len(history[e]) < max
  /\ LET r == processStreamChunk(rawEvent, streamState[StateOf(e)])
     IN /\ streamState' = [streamState EXCEPT ![StateOf(e)] = r.st]
        /\ events' = [events EXCEPT ![e] = @ \o r.ev]
  /\ history' = [history EXCEPT ![e] = Append(@, rawEvent)]
  /\ UNCHANGED <<pc, cancelled, born>>
  /\ UNCHANGED handlerVars

\* the upstream iterator reports that the sequence is complete
UpstreamEnd(e) ==
  /\ pc[e] = "consume"
  /\ pc' = [pc EXCEPT ![e] = "ended"]
  /\ UNCHANGED <<streamState, events, history, cancelled, born>>
  /\ UNCHANGED handlerVars

\* the upstream iterator throws: the for-await at line 56 is outside any try
UpstreamAbort(e) ==
  /\ pc[e] = "consume"
  /\ pc' = [pc EXCEPT ![e] = "failed"]
  /\ UNCHANGED <<streamState, events, history, cancelled, born>>
  /\ UNCHANGED handlerVars

\* mutant: the callback returns after the loop without writing done
SendDoneSkipped(e) ==
  /\ pc[e] = "ended"
  /\ pc' = [pc EXCEPT ![e] = "done"]
  /\ UNCHANGED <<streamState, events, history, cancelled, born>>
  /\ UNCHANGED handlerVars

\* the loop exits and the callback runs await sendDoneEvent(stream, streamState)
SendDone(e) ==
  /\ pc[e] = "ended"
  /\ events' = [events EXCEPT ![e] = Append(@, DoneEvent(streamState[StateOf(e)]))]
  /\ pc' = [pc EXCEPT ![e] = "done"]
  /\ UNCHANGED <<streamState, history, cancelled, born>>
  /\ UNCHANGED handlerVars

\* the client goes away; nothing in lines 51-61 reads the stream's aborted
\* flag or registers an abort handler, so the callback's steps are unchanged
ClientDisconnect(e) ==
  /\ pc[e] \in {"start", "consume", "ended"}
  /\ ~cancelled[e]
  /\ cancelled' = [cancelled EXCEPT ![e] = TRUE]
  /\ UNCHANGED <<pc, streamState, events, history, born>>
  /\ UNCHANGED handlerVars

Next ==
  \E e \in Exchanges :
    \/ SendCreated(e)
    \/ \E r \in Records : ProcessRecord(e, r, MaxRecords)
    \/ UpstreamEnd(e)
    \/ UpstreamAbort(e)
    \/ SendDone(e)
    \/ ClientDisconnect(e)

Spec == Init /\ [][Next]_vars

NextPair ==
  \E e \in Exchanges :
    \/ SendCreated(e)
    \/ \E r \in RecordsPair : ProcessRecord(e, r, MaxRecordsPair)
    \/ UpstreamEnd(e)
    \/ SendDone(e)

SpecPair == InitPair /\ [][NextPair]_vars

(***************************************************************************)
(* The requests the normalizer is run on.                                  *)
(***************************************************************************)
MaxItems == 2

SeqsUpTo(S, n) == UNION {[1..k -> S] : k \in 0..n}

Part(type, text) == [type |-> type, text |-> text]

Item(role, content, type, tool_call_id, output) ==
  [role |-> role, content |-> content, type |-> type,
   tool_call_id |-> tool_call_id, output |-> output]

Contents ==
  {NoValue, Str(""), Str("hi"), Arr(<<>>),
   Arr(<<Part("input_text", "a")>>),
   Arr(<<Part("input_text", "")>>),
   Arr(<<Part("input_image", Undefined)>>),
   Arr(<<Part("input_text", "a"), Part("input_image", Undefined),
         Part("output_text", "b")>>),
   Arr(<<Part("input_image", Undefined), Part("input_text", "a"),
         Part("output_text", "b")>>),
   Arr(<<Part("input_text", "a"), Part("output_text", "b")>>)}

MessageItems ==
  {Item(role, content, type, Undefined, Undefined) :
     role \in {"user", "developer"}, content \in Contents,
     type \in {Undefined}}

ToolResultItems ==
  {Item("user", content, "tool_result", id, output) :
     content \in {NoValue, Str("r"), Arr(<<Part("input_text", "a")>>)},
     id \in {Undefined, "c1"},
     output \in {Undefined, "", "42"}}

Items == MessageItems \cup ToolResultItems

Instructions == {Undefined, "", "Be brief."}

Inputs ==
  {NoValue, Str(""), Str("2+2?")} \cup {Arr(items) : items \in SeqsUpTo(Items, MaxItems)}

FunctionTool(name, description, parameters) ==
  [type |-> "function", hasFunction |-> TRUE,
   function |-> [name |-> name, description |-> description,
                 parameters |-> parameters]]

OtherTool(type) ==
  [type |-> type, hasFunction |-> FALSE,
   function |-> [name |-> Undefined, description |-> Undefined,
                 parameters |-> Undefined]]

ToolChoiceObject(type, hasFunction, name) ==
  [kind |-> "object", type |-> type, hasFunction |-> hasFunction, name |-> name]

ToolLists ==
  {NoValue, Arr(<<>>),
   Arr(<<FunctionTool("get_weather", "Weather", "{\"type\":\"object\"}")>>),
   Arr(<<OtherTool("web_search_preview"),
         FunctionTool("get_time", Undefined, Undefined)>>),
   Arr(<<FunctionTool("get_weather", "Weather", "{\"type\":\"object\"}"),
         OtherTool("file_search"),
         FunctionTool("get_time", Undefined, Undefined)>>),
   Arr(<<OtherTool("file_search"), OtherTool("function")>>)}

ToolChoices ==
  {NoValue, Str(""), Str("auto"), Str("none"), Str("required"), Str("banana"),
   ToolChoiceObject("function", TRUE, "get_weather"),
   ToolChoiceObject("function", TRUE, Undefined),
   ToolChoiceObject("function", FALSE, Undefined),
   ToolChoiceObject("web_search_preview", TRUE, "get_weather")}

Request(instructions, input, tools, tool_choice, numbers) ==
  [model |-> "gpt-4o", input |-> input, instructions |-> instructions,
   tools |-> tools, tool_choice |-> tool_choice,
   max_output_tokens |-> IF numbers THEN Num(100) ELSE NoValue,
   temperature |-> IF numbers THEN Num(2) ELSE NoValue,
   top_p |-> IF numbers THEN Num(1) ELSE NoValue,
   stream |-> IF numbers THEN Bool(FALSE) ELSE NoValue]

\* the message-bearing fields and the tool-bearing fields are translated
\* independently of each other, so each family varies one group of fields
MessageRequests ==
  {Request(i, input, NoValue, NoValue, FALSE) :
     i \in Instructions, input \in Inputs}

ToolRequests ==
  {Request("Be brief.", Str("2+2?"), tools, tool_choice, TRUE) :
     tools \in ToolLists, tool_choice \in ToolChoices}

Requests == MessageRequests \cup ToolRequests

InitRequest ==
  /\ pc = [e \in Exchanges |-> "off"]
  /\ born = [e \in Exchanges |-> [model |-> "gpt-4o", now |-> 1]]
  /\ streamState = [e \in Exchanges |-> createStreamState("gpt-4o", 1)]
  /\ events = [e \in Exchanges |-> <<>>]
  /\ history = [e \in Exchanges |-> <<>>]
  /\ cancelled = [e \in Exchanges |-> FALSE]
  /\ hpc = "received"
  /\ request \in Requests
  /\ chatPayload = NoValue
  /\ chatResponse = NoValue
  /\ responsesResponse = NoValue
  /\ raised = [e \in Exchanges |-> <<>>]

\* const chatPayload = translateResponsesToChat(request)
TranslateRequest ==
  /\ hpc = "received"
  /\ chatPayload' = translateResponsesToChat(request)
  /\ hpc' = "translated"
  /\ UNCHANGED <<request, chatResponse, responsesResponse, raised, streamVars>>

NextRequest == TranslateRequest

SpecRequest == InitRequest /\ [][NextRequest]_vars

(***************************************************************************)
(* The non-streaming exchange: the upstream has answered with a complete   *)
(* chat completion response, and the handler projects it with the model of *)
(* the request as fallback.  The choices and the usage are projected       *)
(* independently of each other, so each family varies one of them.         *)
(***************************************************************************)
MaxChoices == 2

ContentPart(type, text) == [type |-> type, text |-> text]

MessageContents ==
  {Null, Str(""), Str("Hi"),
   Arr(<<ContentPart("image_url", Undefined)>>),
   Arr(<<ContentPart("text", "a"), ContentPart("image_url", Undefined),
         ContentPart("text", "b")>>)}

ToolCallLists ==
  {NoValue,
   Arr(<<ToolCall("call_1", "get_weather", "{\"loc\": \"Paris\"}")>>),
   Arr(<<ToolCall("call_1", "get_weather", "{\"loc\": \"Paris\"}"),
         ToolCall("call_2", "get_time", "")>>)}

ResponseChoices ==
  {ResponseChoice(content, tool_calls) :
     content \in MessageContents, tool_calls \in ToolCallLists}

TokenCounts == {0, 10}

Usages ==
  {NoValue} \cup
  {Usage(p, c, IF agrees THEN p + c ELSE 99) :
     p \in TokenCounts, c \in {0, 8}, agrees \in BOOLEAN}

ResponseModels == {Undefined, "", "gpt-4o-2024-05-13"}

FallbackModels == {"", "gpt-4o"}

ChoiceResponses ==
  {ChatResponse("chatcmpl-1", 1, m, choices, Usage(10, 8, 18)) :
     m \in {"gpt-4o-2024-05-13"},
     choices \in SeqsUpTo(ResponseChoices, MaxChoices)}

UsageResponses ==
  {ChatResponse("chatcmpl-1", 1, m, <<ResponseChoice(Str("Hi"), NoValue)>>, u) :
     m \in ResponseModels, u \in Usages}

ChatResponses == ChoiceResponses \cup UsageResponses

InitProject ==
  /\ pc = [e \in Exchanges |-> "off"]
  /\ born = [e \in Exchanges |-> [model |-> "gpt-4o", now |-> 1]]
  /\ streamState = [e \in Exchanges |-> createStreamState("gpt-4o", 1)]
  /\ events = [e \in Exchanges |-> <<>>]
  /\ history = [e \in Exchanges |-> <<>>]
  /\ cancelled = [e \in Exchanges |-> FALSE]
  /\ hpc = "answered"
  /\ \E m \in FallbackModels :
       request = [Request(Undefined, Str("2+2?"), NoValue, NoValue, FALSE)
                    EXCEPT !.model = m]
  /\ chatPayload = translateResponsesToChat(request)
  /\ chatResponse \in ChatResponses
  /\ responsesResponse = NoValue
  /\ raised = [e \in Exchanges |-> <<>>]

\* const responsesResponse = translateChatToResponses(response, request.model)
ProjectResponse ==
  /\ hpc = "answered"
  /\ responsesResponse' = translateChatToResponses(chatResponse, request.model)
  /\ hpc' = "projected"
  /\ UNCHANGED <<request, chatPayload, chatResponse, raised, streamVars>>

NextProject == ProjectResponse

SpecProject == InitProject /\ [][NextProject]_vars

(***************************************************************************)
(* Fairness: a callback whose awaited promise has resolved is resumed by   *)
(* the event loop, so the first write and the step after the end of the    *)
(* upstream sequence are eventually taken.  Nothing obliges the upstream   *)
(* to deliver or to end.                                                   *)
(***************************************************************************)
FairSpec ==
  /\ Init
  /\ [][Next]_vars
  /\ \A e \in Exchanges : WF_vars(SendCreated(e)) /\ WF_vars(SendDone(e))

(***************************************************************************)
(* One exchange in which a write made while a record is processed may      *)
(* raise.  The writes of the created and of the done event are outside the *)
(* try block and are taken to return.                                      *)
(***************************************************************************)
MaxRecordsWrite == 2

RecordsWrite ==
  {Chunk(Undefined, <<Choice("Hello", <<>>, "")>>),
   Chunk("chatcmpl-1", <<Choice("Hello", <<>>, "")>>),
   Chunk(Undefined, <<Choice(" world", <<>>, "stop")>>),
   Chunk(Undefined, <<Choice("Hello", <<>>, "stop"), Choice(" world", <<>>, "stop")>>),
   Chunk(Undefined, <<Choice("", <<Frag(0, "c1", "get_weather", "{\"loc\":")>>, "")>>),
   Undecodable}

\* one turn of the loop in which the k-th write of the record raises
ProcessRecordRaising(e, rawEvent, max) ==
  /\ pc[e] = "consume"
  /\ Len(history[e]) < max
  /\ \E k \in 1..Len(recordWrites(rawEvent, streamState[StateOf(e)])) :
       LET r == processStreamChunkRaising(rawEvent, streamState[StateOf(e)], k)
       IN /\ streamState' = [streamState EXCEPT ![StateOf(e)] = r.st]
          /\ events' = [events EXCEPT ![e] = @ \o r.ev]
          /\ raised' = [raised EXCEPT ![e] = Append(@, Len(events[e]) + k)]
  /\ history' = [history EXCEPT ![e] = Append(@, rawEvent)]
  /\ UNCHANGED <<pc, cancelled, born>>
  /\ UNCHANGED <<hpc, request, chatPayload, chatResponse, responsesResponse>>

NextWrite ==
  \E e \in Exchanges :
    \/ SendCreated(e)
    \/ \E r \in RecordsWrite : ProcessRecord(e, r, MaxRecordsWrite)
    \/ \E r \in RecordsWrite : ProcessRecordRaising(e, r, MaxRecordsWrite)
    \/ UpstreamEnd(e)
    \/ SendDone(e)

SpecWrite ==
  /\ Init
  /\ [][NextWrite]_vars
  /\ \A e \in Exchanges : WF_vars(SendCreated(e)) /\ WF_vars(SendDone(e))

(***************************************************************************)
(* Vocabulary of the properties.                                           *)
(***************************************************************************)
Running == {e \in Exchanges : pc[e] # "off"}

IsCreated(ev) == ev.type = "response.created"

IsTextDelta(ev) == ev.type = "response.output_text.delta"

IsTextDone(ev) == ev.type = "response.output_text.done"

IsDone(ev) == ev.type = "response.done"

IsFcStart(ev) == ev.type = "response.function_call_arguments.start"

IsFcDelta(ev) == ev.type = "response.function_call_arguments.delta"

IsFc(ev) == IsFcStart(ev) \/ IsFcDelta(ev)

NonEmptyText(c) == c # "" /\ c # Undefined

Count(evs, Is(_)) == Cardinality({i \in 1..Len(evs) : Is(evs[i])})

\* a record that decodes, has a choices sequence, and whose choices all
\* have a delta
WellFormed(r) ==
  r.json /\ r.hasChoices /\ \A i \in 1..Len(r.choices) : r.choices[i].hasDelta

\* a well-formed record with exactly one choice that carries no tool calls
TextOnly(r) ==
  WellFormed(r) /\ Len(r.choices) = 1 /\ r.choices[1].tool_calls = <<>>

HasFinish(r) == NonEmptyText(r.choices[1].finish_reason)

\* a non-empty stream of text-only records in which the last record, and
\* only the last, carries a finish_reason
TextStream(h) ==
  /\ h # <<>>
  /\ \A i \in 1..Len(h) : TextOnly(h[i]) /\ (HasFinish(h[i]) <=> i = Len(h))

\* the non-empty texts of a text stream, in arrival order
Texts(h) == SelectSeq([i \in 1..Len(h) |-> h[i].choices[1].content], NonEmptyText)

\* created, one delta per text, nDone text-done events, done(Join(texts))
TextEventsAre(evs, texts, nDone) ==
  LET n == Len(texts)
  IN /\ Len(evs) = n + nDone + 2
     /\ IsCreated(evs[1])
     /\ \A i \in 1..n : IsTextDelta(evs[i + 1]) /\ evs[i + 1].delta = texts[i]
     /\ \A i \in 1..nDone : IsTextDone(evs[n + 1 + i])
     /\ IsDone(evs[n + nDone + 2])
     /\ evs[n + nDone + 2].response.output_text = Join(texts)

(***************************************************************************)
(* C1 (as stated): a finished exchange over a text stream has emitted      *)
(* exactly: created, one text delta per record with non-empty text (in     *)
(* order, carrying that text), ONE text-done, and done carrying the        *)
(* concatenation of the deltas.                                            *)
(***************************************************************************)
C1_AsStated ==
  \A e \in Running :
    (pc[e] = "done" /\ TextStream(history[e]))
      => TextEventsAre(events[e], Texts(history[e]), 1)

(***************************************************************************)
(* C1 (amended): as above, but the text-done event is emitted once when at *)
(* least one record carried non-empty text and not at all otherwise.       *)
(***************************************************************************)
C1_TextStreamEvents ==
  \A e \in Running :
    (pc[e] = "done" /\ TextStream(history[e]))
      => TextEventsAre(events[e], Texts(history[e]),
                       IF Texts(history[e]) = <<>> THEN 0 ELSE 1)

C1_Witness ==
  /\ pc[1] = "done"
  /\ history[1] = <<Chunk(Undefined, <<Choice("Hello", <<>>, "")>>),
                    Chunk(Undefined, <<Choice(" world", <<>>, "stop")>>)>>
  /\ Len(events[1]) = 5
  /\ events[1][5].response.output_text = "Hello world"

(***************************************************************************)
(* C2: in a stream of well-formed records, the function-call events are,   *)
(* fragment by fragment in arrival order: a start event exactly when the   *)
(* fragment's index has not appeared before, then an arguments delta when  *)
(* the fragment carries arguments.  Hence one start per index, at its      *)
(* first fragment and before any of its deltas, whether or not a name is   *)
(* present or repeated.                                                    *)
(***************************************************************************)
ChoiceFrags(r) == Flatten([i \in 1..Len(r.choices) |-> r.choices[i].tool_calls])

Frags(h) == Flatten([i \in 1..Len(h) |-> ChoiceFrags(h[i])])

FcKind(ev) == IF IsFcStart(ev) THEN "start" ELSE "delta"

FcKinds(evs) ==
  LET fc == SelectSeq(evs, IsFc) IN [i \in 1..Len(fc) |-> FcKind(fc[i])]

RECURSIVE OncePerIndex(_, _)
OncePerIndex(frags, seen) ==
  IF frags = <<>> THEN <<>>
  ELSE LET f == Head(frags)
       IN (IF f.index \in seen THEN <<>> ELSE <<"start">>)
          \o (IF NonEmptyText(f.arguments) THEN <<"delta">> ELSE <<>>)
          \o OncePerIndex(Tail(frags), seen \cup {f.index})

C2_OneStartPerIndex ==
  \A e \in Running :
    (\A i \in 1..Len(history[e]) : WellFormed(history[e][i]))
      => FcKinds(events[e]) = OncePerIndex(Frags(history[e]), {})

(***************************************************************************)
(* C3: when every tool call's id and name arrive in the first fragment of  *)
(* its index and in no later one, the function-call events are, fragment   *)
(* by fragment: for a first fragment one start event carrying its id and   *)
(* name, and for every fragment with non-empty arguments one delta event   *)
(* carrying exactly that string; the deltas of a single tool call          *)
(* concatenate to the concatenation of its fragments' arguments.           *)
(***************************************************************************)
FirstOfIndex(frags, i) == \A j \in 1..(i - 1) : frags[j].index # frags[i].index

NamedOnlyFirst(frags) ==
  \A i \in 1..Len(frags) :
    IF FirstOfIndex(frags, i)
      THEN NonEmptyText(frags[i].id) /\ NonEmptyText(frags[i].name)
      ELSE frags[i].id = Undefined /\ frags[i].name = Undefined

FcView(ev) ==
  IF IsFcStart(ev)
    THEN <<"start", ev.item.call_id, ev.item.name, ev.item.id, ev.item.status>>
    ELSE <<"delta", ev.delta>>

FcViews(evs) ==
  LET fc == SelectSeq(evs, IsFc) IN [i \in 1..Len(fc) |-> FcView(fc[i])]

FragExpected(frags, i) ==
  (IF FirstOfIndex(frags, i)
     THEN <<<<"start", frags[i].id, frags[i].name, "fc_" \o frags[i].id,
              "in_progress">>>>
     ELSE <<>>)
  \o (IF NonEmptyText(frags[i].arguments)
        THEN <<<<"delta", frags[i].arguments>>>> ELSE <<>>)

DeltaPayloads(evs) ==
  LET d == SelectSeq(evs, IsFcDelta) IN [i \in 1..Len(d) |-> d[i].delta]

C3_ToolCallAccumulation ==
  \A e \in Running :
    LET h == history[e]
        frags == Frags(h)
    IN ((\A i \in 1..Len(h) : WellFormed(h[i])) /\ NamedOnlyFirst(frags))
         => /\ FcViews(events[e])
                 = Flatten([i \in 1..Len(frags) |-> FragExpected(frags, i)])
            /\ (\A i \in 1..Len(frags) : frags[i].index = 0)
                 => Join(DeltaPayloads(events[e]))
                      = Join([i \in 1..Len(frags) |-> frags[i].arguments])

C3_Witness ==
  /\ Frags(history[1]) = <<Frag(0, "c1", "get_weather", ""),
                           Frag(0, Undefined, Undefined, "{\"loc\":"),
                           Frag(0, Undefined, Undefined, "\"NYC\"}")>>
  /\ Count(events[1], IsFcStart) = 1
  /\ Join(DeltaPayloads(events[1])) = "{\"loc\":\"NYC\"}"

(***************************************************************************)
(* C4: created is written exactly once, first, and before any record is    *)
(* consumed; done is written at most once, after everything else, with     *)
(* status completed and the accumulated output text; and once the upstream *)
(* sequence has ended, done is eventually written.                         *)
(***************************************************************************)
DoneEmitted(e) == Count(events[e], IsDone) = 1

C4_Order ==
  \A e \in Running :
    LET evs == events[e]
    IN /\ (pc[e] = "start") => (evs = <<>> /\ history[e] = <<>>)
       /\ (pc[e] # "start") => (IsCreated(evs[1]) /\ Count(evs, IsCreated) = 1)
       /\ (pc[e] # "done") => Count(evs, IsDone) = 0
       /\ (pc[e] = "done")
            => /\ DoneEmitted(e)
               /\ IsDone(evs[Len(evs)])
               /\ evs[Len(evs)].response.status = "completed"
               /\ evs[Len(evs)].response.output_text = streamState[e].outputText

C4_CreatedFirstDoneLast ==
  /\ []C4_Order
  /\ \A e \in Exchanges : (pc[e] = "ended") ~> (pc[e] = "done" /\ DoneEmitted(e))

C4_Witness ==
  /\ pc[1] = "done"
  /\ Len(history[1]) = 2
  /\ streamState[1].outputText = "Hello world"
  /\ IsTextDone(events[1][Len(events[1]) - 1])

(***************************************************************************)
(* C5: every text-done event has a text-delta event before it in the same  *)
(* stream; so a stream that has produced no text has no text-done event,   *)
(* whatever finish_reasons it carried.                                     *)
(***************************************************************************)
C5_TextDoneAfterDelta ==
  \A e \in Running :
    \A i \in 1..Len(events[e]) :
      IsTextDone(events[e][i])
        => \E j \in 1..(i - 1) : IsTextDelta(events[e][j])

C5_Witness ==
  /\ Len(history[1]) = 2
  /\ WellFormed(history[1][1]) /\ Len(history[1][1].choices) = 1
  /\ history[1][1].choices[1].finish_reason = "stop"
  /\ history[1][1].choices[1].content = ""
  /\ Count(events[1], IsTextDone) = 1

(***************************************************************************)
(* C6: the step that consumes a malformed record (one that does not       *)
(* decode, or decodes to a value without a choices sequence) writes no     *)
(* event and leaves the stream state as it was.                            *)
(***************************************************************************)
Malformed(r) == ~r.json \/ ~r.hasChoices

C6_MalformedDiscarded ==
  [][\A e \in Exchanges :
       (Len(history'[e]) = Len(history[e]) + 1
          /\ Malformed(history'[e][Len(history'[e])]))
         => (events'[e] = events[e] /\ streamState'[e] = streamState[e])]_vars

(***************************************************************************)
(* C7: responseId is the locally generated placeholder while no consumed   *)
(* record decoded to a chunk with a non-empty id, and otherwise the id of  *)
(* the latest such record; the done event carries the responseId current   *)
(* at the end of the stream.                                               *)
(***************************************************************************)
CarriesId(r) == r.json /\ r.id # "" /\ r.id # Undefined

RECURSIVE LastSeenId(_, _)
LastSeenId(h, placeholder) ==
  IF h = <<>> THEN placeholder
  ELSE IF CarriesId(h[Len(h)]) THEN h[Len(h)].id
  ELSE LastSeenId(SubSeq(h, 1, Len(h) - 1), placeholder)

Placeholder(e) == "resp_" \o ToString(born[e].now)

C7_LastNonEmptyIdWins ==
  \A e \in Running :
    /\ streamState[e].responseId = LastSeenId(history[e], Placeholder(e))
    /\ (pc[e] = "done")
         => events[e][Len(events[e])].response.id
              = LastSeenId(history[e], Placeholder(e))

C7_Witness ==
  /\ pc[1] = "done"
  /\ Len(history[1]) = 3
  /\ history[1][1].id = "chatcmpl-1"
  /\ history[1][2].id = "chatcmpl-2"
  /\ history[1][3].id = ""
  /\ events[1][Len(events[1])].response.id = "chatcmpl-2"

(***************************************************************************)
(* C8: from the moment the exchange is cancelled, no step consumes a       *)
(* record and no step writes the done event.                               *)
(***************************************************************************)
C8_NothingAfterCancel ==
  [][\A e \in Exchanges :
       cancelled[e]
         => (history'[e] = history[e]
               /\ Count(events'[e], IsDone) = Count(events[e], IsDone))]_vars

(***************************************************************************)
(* C9: with two exchanges interleaved, each exchange's stream state and    *)
(* events are those of running its own records alone: created, then the   *)
(* events of its records in order, then done.                              *)
(***************************************************************************)
RECURSIVE RunAlone(_, _)
RunAlone(h, state) ==
  IF h = <<>> THEN [st |-> state, ev |-> <<>>]
  ELSE LET r == processStreamChunk(Head(h), state)
           rest == RunAlone(Tail(h), r.st)
       IN [st |-> rest.st, ev |-> r.ev \o rest.ev]

AloneEvents(e) ==
  LET s0 == createStreamState(born[e].model, born[e].now)
      run == RunAlone(history[e], s0)
  IN (IF pc[e] = "start" THEN <<>> ELSE <<CreatedEvent(s0)>>)
     \o run.ev
     \o (IF pc[e] = "done" THEN <<DoneEvent(run.st)>> ELSE <<>>)

AloneState(e) ==
  RunAlone(history[e], createStreamState(born[e].model, born[e].now)).st

C9_ExchangesIndependent ==
  \A e \in Running :
    events[e] = AloneEvents(e) /\ streamState[e] = AloneState(e)

C9_Witness ==
  /\ pc[1] = "done" /\ pc[2] = "done"
  /\ born[1].model # born[2].model
  /\ streamState[1].outputText = "Hello world"
  /\ streamState[2].outputText = " worldHello"
  /\ streamState[1].responseId = "chatcmpl-2"
  /\ streamState[2].responseId = "chatcmpl-1"

(***************************************************************************)
(* C10: a request that carries instructions (a non-empty string, which is  *)
(* what the program takes for present) translates to a message sequence    *)
(* whose first message is {role: system, content: the instructions},       *)
(* whatever the input.                                                     *)
(***************************************************************************)
HasInstructions(req) == req.instructions # Undefined /\ req.instructions # ""

C10_InstructionsFirst ==
  (hpc = "translated" /\ HasInstructions(request))
    => /\ Len(chatPayload.messages) >= 1
       /\ chatPayload.messages[1]
            = [role |-> "system", content |-> request.instructions]

C10_Witness ==
  /\ hpc = "translated"
  /\ request.instructions = "Be brief."
  /\ request.input.kind = "array"
  /\ Len(request.input.items) = 2
  /\ request.input.items[1].content = Arr(<<Part("input_image", Undefined)>>)
  /\ request.input.items[2].role = "developer"
  /\ Len(chatPayload.messages) = 2

(***************************************************************************)
(* C11.  A request whose input is a plain string and that has no           *)
(* instructions (absent or empty) translates to exactly one message, of    *)
(* role user, whose content is the input string verbatim.                  *)
(***************************************************************************)
C11_StringInputOneUserMessage ==
  (hpc = "translated" /\ request.input.kind = "string"
     /\ ~HasInstructions(request))
    => chatPayload.messages
         = <<[role |-> "user", content |-> request.input.text]>>

C11_Witness ==
  /\ hpc = "translated"
  /\ request.input = Str("2+2?")
  /\ request.instructions = Undefined
  /\ Len(chatPayload.messages) = 1

(***************************************************************************)
(* C12.  Content-part collapsing.  A part is text-bearing when its type is *)
(* input_text or output_text and it has a non-empty text.  TextValues is   *)
(* the text of the text-bearing parts in source order: it does not depend  *)
(* on the other parts or on where they sit.                                *)
(***************************************************************************)
TextBearing(part) ==
  part.type \in {"input_text", "output_text"}
    /\ part.text # Undefined /\ part.text # ""

RECURSIVE TextValues(_)
TextValues(parts) ==
  IF parts = <<>> THEN <<>>
  ELSE (IF TextBearing(Head(parts)) THEN <<Head(parts).text>> ELSE <<>>)
         \o TextValues(Tail(parts))

RECURSIVE NewlineJoined(_)
NewlineJoined(texts) ==
  IF Len(texts) = 1 THEN texts[1]
  ELSE texts[1] \o "\n" \o NewlineJoined(Tail(texts))

\* the content the claim gives to the message of an item with array content:
\* none when N = 0
CollapsedContent(item) ==
  LET texts == TextValues(item.content.items)
  IN IF texts = <<>> THEN <<>> ELSE <<NewlineJoined(texts)>>

AnswersToolCall(item) ==
  item.type = "tool_result" /\ item.tool_call_id # Undefined
    /\ item.tool_call_id # ""

ArrayContentOnly(req) ==
  /\ req.input.kind = "array"
  /\ \A i \in 1..Len(req.input.items) : req.input.items[i].content.kind = "array"

InputContents(req, payload) ==
  LET n == Len(instructionMessages(req))
      ms == SubSeq(payload.messages, n + 1, Len(payload.messages))
  IN [i \in 1..Len(ms) |-> ms[i].content]

HasInput(req) ==
  \/ req.input.kind = "string"
  \/ req.input.kind = "array" /\ Len(req.input.items) >= 1

C13_MessagesNotEmpty ==
  (hpc = "translated" /\ HasInput(request))
    => Len(chatPayload.messages) >= 1

(***************************************************************************)
(* C14.  Every input item that answers a tool call (type tool_result with  *)
(* a tool_call_id) becomes a message of role tool whatever its declared    *)
(* role, and every message of role tool carries a non-empty tool_call_id   *)
(* and a non-empty content.                                                *)
(***************************************************************************)
ToolMessages(payload) ==
  LET isTool(m) == m.role = "tool" IN SelectSeq(payload.messages, isTool)

ToolAnswers(req) ==
  IF req.input.kind = "array"
    THEN SelectSeq(req.input.items, AnswersToolCall) ELSE <<>>

C14_ToolResultMessages ==
  hpc = "translated"
    => LET ms == ToolMessages(chatPayload)
           answers == ToolAnswers(request)
       IN /\ Len(ms) = Len(answers)
          /\ \A i \in 1..Len(ms) :
               /\ ms[i].tool_call_id = answers[i].tool_call_id
               /\ ms[i].tool_call_id # Undefined /\ ms[i].tool_call_id # ""
               /\ ms[i].content # Undefined /\ ms[i].content # ""

(***************************************************************************)
(* C15.  The translated tool_choice is the source string unchanged when it *)
(* is auto, none or required; the directive {type: function, function:     *)
(* {name}} when the source is an object of type function that names a      *)
(* function; and unset for every other source value.                       *)
(***************************************************************************)
RecognizedToolChoices == {"auto", "none", "required"}

NamesFunction(tc) ==
  tc.kind = "object" /\ tc.type = "function" /\ tc.hasFunction
    /\ tc.name # Undefined /\ tc.name # ""

ExpectedToolChoice(tc) ==
  IF tc.kind = "string" /\ tc.text \in RecognizedToolChoices THEN tc
  ELSE IF NamesFunction(tc)
    THEN ToolChoiceObject("function", TRUE, tc.name)
  ELSE NoValue

C15_ToolChoiceMapping ==
  hpc = "translated"
    => chatPayload.tool_choice = ExpectedToolChoice(request.tool_choice)

(***************************************************************************)
(* C16.  The translated tools are exactly the source tools of type         *)
(* function that have a function block, in source order, each with its     *)
(* name, description and parameters ("{}" when the source has none); when   *)
(* none survives the tools field is unset, never an empty sequence.        *)
(***************************************************************************)
RECURSIVE SurvivingTools(_)
SurvivingTools(tools) ==
  IF tools = <<>> THEN <<>>
  ELSE LET t == Head(tools)
       IN (IF t.type = "function" /\ t.hasFunction
             THEN <<[type |-> "function",
                     function |->
                       [name |-> t.function.name,
                        description |-> t.function.description,
                        parameters |->
                          IF t.function.parameters = Undefined
                            THEN "{}" ELSE t.function.parameters]]>>
             ELSE <<>>)
            \o SurvivingTools(Tail(tools))

SourceTools(req) ==
  IF req.tools.kind = "array" THEN req.tools.items ELSE <<>>

C16_FunctionToolsOnly ==
  hpc = "translated"
    => LET survivors == SurvivingTools(SourceTools(request))
       IN /\ chatPayload.tools # Arr(<<>>)
          /\ chatPayload.tools
               = (IF survivors = <<>> THEN NoValue ELSE Arr(survivors))

C16_Witness ==
  /\ hpc = "translated"
  /\ request.tools.kind = "array"
  /\ Len(request.tools.items) = 3
  /\ request.tools.items[2].type = "file_search"
  /\ chatPayload.tools.kind = "array"
  /\ Len(chatPayload.tools.items) = 2
  /\ chatPayload.tools.items[1].function.name = "get_weather"
  /\ chatPayload.tools.items[2].function.name = "get_time"
  /\ chatPayload.tools.items[2].function.parameters = "{}"

\* every tool is dropped: the field is unset
C16_WitnessNoneSurvives ==
  /\ hpc = "translated"
  /\ request.tools
       = Arr(<<OtherTool("file_search"), OtherTool("function")>>)
  /\ chatPayload.tools = NoValue

(***************************************************************************)
(* C17.  A chat completion response whose usage has prompt_tokens p and    *)
(* completion_tokens c is projected to a usage with input_tokens p,        *)
(* output_tokens c and total_tokens p + c, whatever total the upstream     *)
(* usage carried.                                                          *)
(***************************************************************************)
C17_UsageTotalIsSum ==
  (hpc = "projected" /\ chatResponse.usage.kind = "object")
    => /\ responsesResponse.usage.kind = "object"
       /\ responsesResponse.usage.input_tokens
            = chatResponse.usage.prompt_tokens
       /\ responsesResponse.usage.output_tokens
            = chatResponse.usage.completion_tokens
       /\ responsesResponse.usage.total_tokens
            = chatResponse.usage.prompt_tokens
                + chatResponse.usage.completion_tokens

\* the upstream total disagrees with the sum
C17_Witness ==
  /\ hpc = "projected"
  /\ chatResponse.usage = Usage(10, 8, 99)
  /\ responsesResponse.usage.total_tokens = 18

(***************************************************************************)
(* C18.  The model of a projected response is the model of the chat        *)
(* completion response when that is non-empty and the fallback model of    *)
(* the caller otherwise.                                                   *)
(***************************************************************************)
NonEmpty(str) == str # Undefined /\ str # ""

ModelOrFallback ==
  IF NonEmpty(chatResponse.model) THEN chatResponse.model ELSE request.model

\* C18 as stated: ... and it is never empty
C18_AsStated ==
  hpc = "projected"
    => /\ responsesResponse.model = ModelOrFallback
       /\ NonEmpty(responsesResponse.model)

\* C18, amended: ... and it is empty exactly when the response has no model
\* and the fallback model is empty too
C18_ModelOrFallback ==
  hpc = "projected"
    => /\ responsesResponse.model = ModelOrFallback
       /\ ~NonEmpty(responsesResponse.model)
            <=> (~NonEmpty(chatResponse.model) /\ ~NonEmpty(request.model))

C18_Witness ==
  /\ hpc = "projected"
  /\ chatResponse.model = ""
  /\ request.model = "gpt-4o"
  /\ responsesResponse.model = "gpt-4o"

(***************************************************************************)
(* C19.  The output of translateChatToResponses is, for each choice in     *)
(* order, one message item if and only if the flattened assistant text of  *)
(* the choice is non-empty, followed by one function_call item per tool    *)
(* call of the choice in order, each with the name, the arguments string   *)
(* and the id of the call; a response with empty content and one tool call *)
(* gives exactly one function_call item, no message item and an empty      *)
(* output_text.                                                            *)
(***************************************************************************)
RECURSIVE TextOfParts(_)
TextOfParts(parts) ==
  IF parts = <<>> THEN ""
  ELSE LET part == Head(parts)
       IN (IF part.type = "text" /\ part.text # Undefined
             THEN part.text ELSE "")
            \o TextOfParts(Tail(parts))

AssistantText(message) ==
  IF message.content.kind = "string" THEN message.content.text
  ELSE IF message.content.kind = "array"
    THEN TextOfParts(message.content.items)
  ELSE ""

CallsOf(message) ==
  IF message.tool_calls.kind = "array" THEN message.tool_calls.items ELSE <<>>

ExpectedItems(message) ==
  (IF AssistantText(message) # ""
     THEN <<[type |-> "message", text |-> AssistantText(message)]>>
     ELSE <<>>)
    \o [i \in 1..Len(CallsOf(message)) |->
          [type |-> "function_call",
           name |-> CallsOf(message)[i].function.name,
           arguments |-> CallsOf(message)[i].function.arguments,
           call_id |-> CallsOf(message)[i].id]]

ItemView(item) ==
  IF item.type = "message"
    THEN [type |-> "message", text |-> Join([i \in 1..Len(item.content) |->
                                                item.content[i].text])]
  ELSE [type |-> item.type, name |-> item.name,
        arguments |-> item.arguments, call_id |-> item.call_id]

EmptyContentOneCall(response) ==
  /\ Len(response.choices) = 1
  /\ AssistantText(response.choices[1].message) = ""
  /\ Len(CallsOf(response.choices[1].message)) = 1

C19_OutputItems ==
  hpc = "projected"
    => /\ [i \in 1..Len(responsesResponse.output) |->
             ItemView(responsesResponse.output[i])]
            = Flatten([i \in 1..Len(chatResponse.choices) |->
                         ExpectedItems(chatResponse.choices[i].message)])
       /\ EmptyContentOneCall(chatResponse)
            => /\ Len(responsesResponse.output) = 1
               /\ responsesResponse.output[1].type = "function_call"
               /\ responsesResponse.output_text = ""

C19_Witness ==
  /\ hpc = "projected"
  /\ Len(chatResponse.choices) = 2
  /\ chatResponse.choices[1].message.content
       = Arr(<<ContentPart("text", "a"), ContentPart("image_url", Undefined),
               ContentPart("text", "b")>>)
  /\ Len(CallsOf(chatResponse.choices[1].message)) = 2
  /\ chatResponse.choices[2].message.content = Null
  /\ Len(CallsOf(chatResponse.choices[2].message)) = 1
  /\ Len(responsesResponse.output) = 4
  /\ responsesResponse.output[1].type = "message"
  /\ responsesResponse.output[4].type = "function_call"

\* the scenario of the claim: no text, one tool call
C19_WitnessScenario ==
  /\ hpc = "projected"
  /\ EmptyContentOneCall(chatResponse)
  /\ Len(responsesResponse.output) = 1
  /\ responsesResponse.output_text = ""

(***************************************************************************)
(* C20.  Once a response.output_text.done event has been written in an     *)
(* exchange the text slot is closed: no response.output_text.delta and no  *)
(* second response.output_text.done is written after it, whatever records  *)
(* follow.                                                                 *)
(***************************************************************************)
C20_TextSlotClosed ==
  \A e \in Exchanges :
    \A i, j \in 1..Len(events[e]) :
      (i < j /\ IsTextDone(events[e][i]))
        => ~IsTextDelta(events[e][j]) /\ ~IsTextDone(events[e][j])

(***************************************************************************)
(* C21.  In every reachable state of a streaming exchange the accumulated  *)
(* outputText is the concatenation, in emission order, of the payloads of  *)
(* the response.output_text.delta events handed to the transport so far,   *)
(* and each of these events carries the raw increment of its choice, never *)
(* the accumulated total.                                                  *)
(***************************************************************************)
TextDeltas(evs) ==
  LET ds == SelectSeq(evs, IsTextDelta)
  IN [i \in 1..Len(ds) |-> ds[i].delta]

\* the choices of a record that are reached before one without a delta
RECURSIVE ReachedChoices(_)
ReachedChoices(choices) ==
  IF choices = <<>> \/ ~Head(choices).hasDelta THEN <<>>
  ELSE <<Head(choices)>> \o ReachedChoices(Tail(choices))

RecordTexts(r) ==
  IF r.json /\ r.hasChoices
    THEN LET cs == ReachedChoices(r.choices)
         IN SelectSeq([i \in 1..Len(cs) |-> cs[i].content], NonEmptyText)
  ELSE <<>>

ArrivedTexts(h) == Flatten([i \in 1..Len(h) |-> RecordTexts(h[i])])

C21_OutputTextIsDeltas ==
  \A e \in Running :
    /\ streamState[e].outputText = Join(TextDeltas(events[e]))
    /\ TextDeltas(events[e]) = ArrivedTexts(history[e])

C21_Witness ==
  /\ TextDeltas(events[1]) = <<"Hello", " world">>
  /\ streamState[1].outputText = "Hello world"

(***************************************************************************)
(* C22.  For an array input the messages after the optional system message *)
(* of the instructions are the translations of exactly the items that do   *)
(* not normalize to nothing, in source order; dropping an item changes the *)
(* translation of no other item; an item of role developer is translated   *)
(* with role system.                                                       *)
(***************************************************************************)
\* an item normalizes to nothing when it answers no tool call and its
\* content has no text
HasText(content) ==
  \/ content.kind = "string" /\ content.text # ""
  \/ content.kind = "array" /\ TextValues(content.items) # <<>>

Survives(item) == AnswersToolCall(item) \/ HasText(item.content)

ExpectedRole(item) ==
  IF AnswersToolCall(item) THEN "tool"
  ELSE IF item.role = "developer" THEN "system" ELSE item.role

InputPart(req, payload) ==
  SubSeq(payload.messages, Len(instructionMessages(req)) + 1,
         Len(payload.messages))

\* the translation of the item taken alone
AloneMessages(item) == inputMessages([input |-> Arr(<<item>>)])

C22_ItemsInOrder ==
  (hpc = "translated" /\ request.input.kind = "array")
    => LET items == request.input.items
           kept == SelectSeq(items, Survives)
           ms == InputPart(request, chatPayload)
       IN /\ Len(ms) = Len(kept)
          /\ \A i \in 1..Len(ms) : ms[i].role = ExpectedRole(kept[i])
          /\ ms = Flatten([i \in 1..Len(items) |-> AloneMessages(items[i])])

C22_Witness ==
  /\ hpc = "translated"
  /\ request.instructions = Undefined
  /\ request.input.kind = "array"
  /\ Len(request.input.items) = 2
  /\ request.input.items[1].content = Str("")
  /\ request.input.items[2].role = "developer"
  /\ request.input.items[2].content = Str("hi")
  /\ chatPayload.messages = <<[role |-> "system", content |-> "hi"]>>

(***************************************************************************)
(* C23.  When several choices of a response carry non-empty assistant      *)
(* text, the output_text of the projected response is the flattened text   *)
(* of the last such choice in choice order, and every such choice still    *)
(* contributes its own message item.                                       *)
(***************************************************************************)
ChoiceTexts(response) ==
  SelectSeq([i \in 1..Len(response.choices) |->
               AssistantText(response.choices[i].message)],
            NonEmptyText)

MessageItemTexts(output) ==
  LET isMessageItem(item) == item.type = "message"
      ms == SelectSeq(output, isMessageItem)
  IN [i \in 1..Len(ms) |-> ms[i].content[1].text]

C23_LastTextWins ==
  hpc = "projected"
    => LET texts == ChoiceTexts(chatResponse)
       IN /\ MessageItemTexts(responsesResponse.output) = texts
          /\ responsesResponse.output_text
               = (IF texts = <<>> THEN "" ELSE texts[Len(texts)])

C23_Witness ==
  /\ hpc = "projected"
  /\ ChoiceTexts(chatResponse) = <<"Hi", "ab">>
  /\ responsesResponse.output_text = "ab"
  /\ MessageItemTexts(responsesResponse.output) = <<"Hi", "ab">>

(***************************************************************************)
(* C25.  The ids of the output items of one projected response are         *)
(* pairwise distinct, given that the tool-call ids are unique within the   *)
(* response, for any number of choices.                                    *)
(***************************************************************************)
AllCalls(response) ==
  Flatten([i \in 1..Len(response.choices) |->
             CallsOf(response.choices[i].message)])

UniqueCallIds(response) ==
  LET calls == AllCalls(response)
  IN \A i, j \in 1..Len(calls) : calls[i].id = calls[j].id => i = j

C25_ItemIdsDistinct ==
  (hpc = "projected" /\ UniqueCallIds(chatResponse))
    => \A i, j \in 1..Len(responsesResponse.output) :
         responsesResponse.output[i].id = responsesResponse.output[j].id
           => i = j

(***************************************************************************)
(* C24.  An exception raised by a write while a record is processed is     *)
(* caught by the handler of the record: the writes already made are those  *)
(* the record would have made up to the one that raised, no later write of *)
(* the record is made, the text appended before the write stays in         *)
(* outputText, the loop goes on with the next record, and the              *)
(* response.done event is still written, with an output_text that includes *)
(* the text of the delta whose write raised.                               *)
(***************************************************************************)
WriteRaised(e) == Len(raised'[e]) > Len(raised[e])

C24_Step ==
  \A e \in Exchanges :
    WriteRaised(e)
      => LET r == history'[e][Len(history'[e])]
             full == processStreamChunk(r, streamState[e]).ev
             new == SubSeq(events'[e], Len(events[e]) + 1, Len(events'[e]))
         IN /\ Len(history'[e]) = Len(history[e]) + 1
            /\ Len(new) >= 1 /\ Len(new) <= Len(full)
            /\ new = SubSeq(full, 1, Len(new))
            /\ raised'[e][Len(raised'[e])] = Len(events'[e])
            /\ streamState'[e].outputText
                 = streamState[e].outputText \o Join(TextDeltas(new))
            /\ pc'[e] = "consume"

C24_DoneText ==
  \A e \in Running :
    pc[e] = "done"
      => /\ IsDone(events[e][Len(events[e])])
         /\ events[e][Len(events[e])].response.output_text
              = Join(TextDeltas(events[e]))

C24_WriteFailureCaught ==
  /\ [][C24_Step]_vars
  /\ []C24_DoneText
  /\ \A e \in Exchanges :
       (pc[e] = "ended" /\ raised[e] # <<>>)
         ~> (pc[e] = "done" /\ DoneEmitted(e))

\* the write of the delta "Hello" raised, the next record was consumed and
\* the done event carries both texts
C24_Witness ==
  /\ pc[1] = "done"
  /\ raised[1] = <<2>>
  /\ IsTextDelta(events[1][2]) /\ events[1][2].delta = "Hello"
  /\ Len(history[1]) = 2
  /\ TextDeltas(events[1]) = <<"Hello", " world">>
  /\ events[1][Len(events[1])].response.output_text = "Hello world"

====
